---- MODULE Spec2Model ----
(***************************************************************************)
(* Contact-form intake worker: form validation and sanitisation, the      *)
(* submissions table, Cloudflare-Access identity extraction and the admin  *)
(* authorisation policy, the status update handler and the admin           *)
(* notification e-mail.                                                    *)
(***************************************************************************)
EXTENDS Integers, Sequences, FiniteSets, TLC

(***************************************************************************)
(* Bounds of the model.                                                    *)
(***************************************************************************)
\* number of requests (one handler invocation each) in a behaviour
MaxReqs == 2
\* crypto.randomUUID() draws from 1..MaxIds
MaxIds == 2
\* the server clock, in whole seconds, runs from 0 to MaxClock
MaxClock == 1

(***************************************************************************)
(* Strings.  A string is a sequence of runs [c, n]: n >= 1 copies of the   *)
(* character c, adjacent runs having different characters.  The empty      *)
(* string is << >>.  Characters are classified the way the code's regular  *)
(* expressions and String.prototype.trim classify them:                    *)
(*   "sp"  a space            (white space)                                *)
(*   "tab" \t, \n, \r ...     (white space and a control character)        *)
(*   "ctl" \u0001 ...         (a control character, not white space)       *)
(*   "at"  @      "dot"  .    every other name is an ordinary character    *)
(***************************************************************************)
Run(c, n) == [c |-> c, n |-> n]

Str(c, n) == << Run(c, n) >>

EmptyStr == << >>

\* the JavaScript value undefined (an absent form field, an absent claim)
Undefined == << Run("undefined", 0) >>

\* falsy strings: !x is true for undefined and for ""
Falsy(x) == x = Undefined \/ x = EmptyStr

IsWhiteSpace(c) == c \in {"sp", "tab"}

IsControl(c) == c \in {"tab", "ctl"}

RECURSIVE StrLen(_)
StrLen(s) == IF s = << >> THEN 0 ELSE Head(s).n + StrLen(Tail(s))

\* s1 + s2
Concat(s1, s2) ==
    IF s1 = << >> THEN s2
    ELSE IF s2 = << >> THEN s1
    ELSE IF s1[Len(s1)].c = s2[1].c
         THEN SubSeq(s1, 1, Len(s1) - 1)
              \o << Run(s2[1].c, s1[Len(s1)].n + s2[1].n) >>
              \o Tail(s2)
         ELSE s1 \o s2

RECURSIVE TrimStart(_)
TrimStart(s) ==
    IF s = << >> THEN s
    ELSE IF IsWhiteSpace(Head(s).c) THEN TrimStart(Tail(s)) ELSE s

RECURSIVE TrimEnd(_)
TrimEnd(s) ==
    IF s = << >> THEN s
    ELSE IF IsWhiteSpace(s[Len(s)].c) THEN TrimEnd(SubSeq(s, 1, Len(s) - 1)) ELSE s

\* String.prototype.trim
Trim(s) == TrimEnd(TrimStart(s))

\* s.replace(/[\u0000-\u001F\u007F-\u009F]/g, '')
RECURSIVE RemoveControl(_)
RemoveControl(s) ==
    IF s = << >> THEN s
    ELSE IF IsControl(Head(s).c) THEN RemoveControl(Tail(s))
    ELSE Concat(<< Head(s) >>, RemoveControl(Tail(s)))

\* s.substring(0, k)
RECURSIVE Substring0(_, _)
Substring0(s, k) ==
    IF s = << >> \/ k <= 0 THEN << >>
    ELSE IF Head(s).n >= k THEN << Run(Head(s).c, k) >>
    ELSE << Head(s) >> \o Substring0(Tail(s), k - Head(s).n)

\* the characters of s one by one (used to state properties of strings)
RECURSIVE Chars(_)
Chars(s) ==
    IF s = << >> THEN << >>
    ELSE [i \in 1..Head(s).n |-> Head(s).c] \o Chars(Tail(s))

(***************************************************************************)
(* Configuration (config.ts).                                              *)
(***************************************************************************)
\* CONFIG.contactForm.serviceTypes; each entry is one unit of text
serviceTypes ==
    { Str("Auto & Home Systems Repair", 1),
      Str("Logistics & Adaptive Operations", 1),
      Str("AI Tools & Digital Infrastructure", 1),
      Str("Emergency & Crisis Response", 1),
      Str("General Inquiry", 1),
      Str("Partnership Opportunity", 1) }

\* CONFIG.contactForm.validation
nameRequired == "Name is required"

serviceTypeRequired == "Please select a service type"

messageRequired == "Message is required"

emailInvalid == "Please enter a valid email address"

\* CONFIG.admin.statusOptions.map(option => option.value)
statusOptions == << "new", "in_progress", "resolved", "cancelled" >>

\* CONFIG.security.allowedAdminEmails
allowedAdminEmails == { "harley@atlasdivisions.com", "admin@atlasdivisions.com" }

(***************************************************************************)
(* validation.ts                                                           *)
(***************************************************************************)
NameMax == 255

EmailMax == 255

PhoneMax == 50

MessageMax == 10000

SanitizeMax == 10000

\* number of characters of s equal to c
RECURSIVE Count(_, _)
Count(s, c) ==
    IF s = << >> THEN 0
    ELSE (IF Head(s).c = c THEN Head(s).n ELSE 0) + Count(Tail(s), c)

\* index of the run of s holding the first c, 0 when there is none
RECURSIVE IndexOfRun(_, _, _)
IndexOfRun(s, c, i) ==
    IF i > Len(s) THEN 0
    ELSE IF s[i].c = c THEN i ELSE IndexOfRun(s, c, i + 1)

\* some "." of d is neither its first nor its last character:
\* d matches [^\s@]+\.[^\s@]+ when it has no white space and no @
RECURSIVE HasInnerDot(_, _, _)
HasInnerDot(d, i, before) ==
    IF i > Len(d) THEN FALSE
    ELSE LET first == before + 1
             last  == before + d[i].n
             total == StrLen(d)
             lo    == IF first < 2 THEN 2 ELSE first
             hi    == IF last > total - 1 THEN total - 1 ELSE last
         IN  (d[i].c = "dot" /\ lo <= hi) \/ HasInnerDot(d, i + 1, last)

\* /^[^\s@]+@[^\s@]+\.[^\s@]+$/.test(t)
EmailRegexTest(t) ==
    /\ \A i \in 1..Len(t) : ~IsWhiteSpace(t[i].c)
    /\ Count(t, "at") = 1
    /\ LET k == IndexOfRun(t, "at", 1)
       IN  /\ k > 1
           /\ HasInnerDot(SubSeq(t, k + 1, Len(t)), 1, 0)

isValidEmail(email) == EmailRegexTest(Trim(email))

isValidServiceType(serviceType) == serviceType \in serviceTypes

Push(cond, msg) == IF cond THEN << msg >> ELSE << >>

validateFormSubmissionFailFast(formData) ==
    LET errors ==
            IF Falsy(formData.name) \/ StrLen(Trim(formData.name)) = 0
            THEN << nameRequired >>
            ELSE IF Falsy(formData.service_type) \/ StrLen(Trim(formData.service_type)) = 0
            THEN << serviceTypeRequired >>
            ELSE IF Falsy(formData.message) \/ StrLen(Trim(formData.message)) = 0
            THEN << messageRequired >>
            ELSE IF /\ ~Falsy(formData.email) /\ StrLen(Trim(formData.email)) > 0
                    /\ ~isValidEmail(formData.email)
            THEN << emailInvalid >>
            ELSE IF ~Falsy(formData.service_type) /\ ~isValidServiceType(formData.service_type)
            THEN << "Invalid service type selected" >>
            ELSE IF ~Falsy(formData.name) /\ StrLen(formData.name) > NameMax
            THEN << "Name must be less than 255 characters" >>
            ELSE IF ~Falsy(formData.email) /\ StrLen(formData.email) > EmailMax
            THEN << "Email must be less than 255 characters" >>
            ELSE IF ~Falsy(formData.phone) /\ StrLen(formData.phone) > PhoneMax
            THEN << "Phone number must be less than 50 characters" >>
            ELSE IF ~Falsy(formData.message) /\ StrLen(formData.message) > MessageMax
            THEN << "Message must be less than 10,000 characters" >>
            ELSE << >>
    IN  [isValid |-> Len(errors) = 0, errors |-> errors]

validateFormSubmissionNoMessage(formData) ==
    LET errors ==
            Push(Falsy(formData.name) \/ StrLen(Trim(formData.name)) = 0,
                 nameRequired)
         \o Push(Falsy(formData.service_type) \/ StrLen(Trim(formData.service_type)) = 0,
                 serviceTypeRequired)
         \o Push(/\ ~Falsy(formData.email) /\ StrLen(Trim(formData.email)) > 0
                 /\ ~isValidEmail(formData.email),
                 emailInvalid)
         \o Push(~Falsy(formData.service_type) /\ ~isValidServiceType(formData.service_type),
                 "Invalid service type selected")
    IN  [isValid |-> Len(errors) = 0, errors |-> errors]

validateFormSubmission(formData) ==
    LET errors ==
            Push(Falsy(formData.name) \/ StrLen(Trim(formData.name)) = 0,
                 nameRequired)
         \o Push(Falsy(formData.service_type) \/ StrLen(Trim(formData.service_type)) = 0,
                 serviceTypeRequired)
         \o Push(Falsy(formData.message) \/ StrLen(Trim(formData.message)) = 0,
                 messageRequired)
         \o Push(/\ ~Falsy(formData.email) /\ StrLen(Trim(formData.email)) > 0
                 /\ ~isValidEmail(formData.email),
                 emailInvalid)
         \o Push(~Falsy(formData.service_type) /\ ~isValidServiceType(formData.service_type),
                 "Invalid service type selected")
         \o Push(~Falsy(formData.name) /\ StrLen(formData.name) > NameMax,
                 "Name must be less than 255 characters")
         \o Push(~Falsy(formData.email) /\ StrLen(formData.email) > EmailMax,
                 "Email must be less than 255 characters")
         \o Push(~Falsy(formData.phone) /\ StrLen(formData.phone) > PhoneMax,
                 "Phone number must be less than 50 characters")
         \o Push(~Falsy(formData.message) /\ StrLen(formData.message) > MessageMax,
                 "Message must be less than 10,000 characters")
    IN  [isValid |-> Len(errors) = 0, errors |-> errors]

sanitizeInput(input) == Substring0(RemoveControl(Trim(input)), SanitizeMax)

createFormSubmission(formData) ==
    [ name         |-> sanitizeInput(formData.name),
      email        |-> IF ~Falsy(formData.email) THEN sanitizeInput(formData.email) ELSE Undefined,
      phone        |-> IF ~Falsy(formData.phone) THEN sanitizeInput(formData.phone) ELSE Undefined,
      service_type |-> sanitizeInput(formData.service_type),
      message      |-> sanitizeInput(formData.message) ]

(***************************************************************************)
(* auth.ts                                                                 *)
(***************************************************************************)
\* a claim field that is absent from the JSON object
Missing == "<undefined>"

\* the value JSON.parse returns: an object with optional exp and email, or
\* a value that is not an object (null, a number)
Claims(hasExp, exp, email) ==
    [type |-> "object", hasExp |-> hasExp, exp |-> exp, email |-> email]

JsonNull == [type |-> "null", hasExp |-> FALSE, exp |-> 0, email |-> Missing]

JsonNumber == [type |-> "number", hasExp |-> FALSE, exp |-> 0, email |-> Missing]

\* one dot-separated part of the header: whether atob accepts it, whether
\* JSON.parse accepts the decoded text, and the value it parses to
Segment(b64ok, jsonok, value) ==
    [empty |-> FALSE, b64ok |-> b64ok, jsonok |-> jsonok, value |-> value]

EmptySegment == [empty |-> TRUE, b64ok |-> TRUE, jsonok |-> FALSE, value |-> JsonNull]

Signature == Segment(TRUE, FALSE, JsonNull)

\* request.headers.get('Cf-Access-Jwt-Assertion'): null, or the string
\* given by its parts (userJWT.split('.'))
NoHeader == [present |-> FALSE, parts |-> << >>]

Header(parts) == [present |-> TRUE, parts |-> parts]

Token(claims) == Header(<< Signature, Segment(TRUE, TRUE, claims), Signature >>)

\* extractUserFromAccessToken returns null
NoUser == [present |-> FALSE, email |-> Missing, hasExp |-> FALSE, exp |-> 0]

User(claims) ==
    [present |-> TRUE, email |-> claims.email, hasExp |-> claims.hasExp, exp |-> claims.exp]

TokenExpiredZeroCounts(claims, now) == claims.hasExp /\ claims.exp < now

\* if (decodedPayload.exp && decodedPayload.exp < Math.floor(Date.now() / 1000))
TokenExpired(claims, now) == claims.hasExp /\ claims.exp # 0 /\ claims.exp < now

extractUserFromAccessTokenNoEmailCheck(header, now) ==
    IF ~header.present \/ header.parts = << EmptySegment >> THEN NoUser
    ELSE IF Len(header.parts) # 3 THEN NoUser
    ELSE LET payload == header.parts[2]
         IN  IF payload.empty \/ ~payload.b64ok THEN NoUser
             ELSE IF ~payload.jsonok THEN NoUser
             ELSE IF payload.value.type = "null" THEN NoUser
             ELSE IF TokenExpired(payload.value, now) THEN NoUser
             ELSE User(payload.value)

extractUserFromAccessToken(header, now) ==
    IF ~header.present \/ header.parts = << EmptySegment >> THEN NoUser
    ELSE IF Len(header.parts) # 3 THEN NoUser
    ELSE LET payload == header.parts[2]
         IN  IF payload.empty \/ ~payload.b64ok THEN NoUser        \* atob or JSON.parse throws
             ELSE IF ~payload.jsonok THEN NoUser                   \* JSON.parse throws
             ELSE IF payload.value.type = "null" THEN NoUser       \* property read of null throws
             ELSE IF TokenExpired(payload.value, now) THEN NoUser
             ELSE IF payload.value.email \in {Missing, ""} THEN NoUser
             ELSE User(payload.value)

validateAdminAccessAnyUser(user, cfg) ==
    IF ~cfg.enableAdminAuth THEN TRUE
    ELSE user.present

validateAdminAccessAlwaysList(user, cfg) ==
    IF ~cfg.enableAdminAuth THEN TRUE
    ELSE IF ~user.present THEN FALSE
    ELSE user.email \in allowedAdminEmails

validateAdminAccessIgnoreSwitch(user, cfg) ==
    IF ~user.present /\ cfg.enableCloudflareAccess THEN FALSE
    ELSE IF ~cfg.enableCloudflareAccess /\ user.present
         THEN user.email \in allowedAdminEmails
    ELSE user.present

validateAdminAccess(user, cfg) ==
    IF ~cfg.enableAdminAuth THEN TRUE
    ELSE IF ~user.present /\ cfg.enableCloudflareAccess THEN FALSE
    ELSE IF ~cfg.enableCloudflareAccess /\ user.present
         THEN user.email \in allowedAdminEmails
    ELSE user.present

(***************************************************************************)
(* email.ts: the three provider adapters                                   *)
(***************************************************************************)
\* what the provider call can do: resolve, resolve with a non-success HTTP
\* status (only fetch reports it that way), or throw (provider unreachable,
\* authentication failure reported by the SDK, malformed response)
ProviderOutcomes(adapter) ==
    IF adapter = "fetch" THEN {"ok", "not_ok", "throws"} ELSE {"ok", "throws"}

\* each adapter: "returned" when the promise resolves, "thrown" when it rejects
sendAdminNotificationRethrow(outcome) ==
    IF outcome = "throws" THEN "thrown" ELSE "returned"

sendAdminNotificationMailgun(outcome) == "returned"

sendAdminNotificationCloudflare(outcome) == "returned"

sendAdminNotificationFetch(outcome) == "returned"

sendAdminNotification(adapter, outcome) ==
    CASE adapter = "mailgun.js"       -> sendAdminNotificationMailgun(outcome)
      [] adapter = "cloudflare:email" -> sendAdminNotificationCloudflare(outcome)
      [] adapter = "fetch"            -> sendAdminNotificationFetch(outcome)

shouldSendEmailMailgun(cfg, e) ==
    cfg.enableEmailNotifications /\ e.MG_API_KEY /\ e.MG_DOMAIN /\ e.ADMIN_EMAIL

shouldSendEmailCloudflare(cfg, e) ==
    cfg.enableEmailNotifications /\ e.EMAIL_SENDER /\ e.ADMIN_EMAIL

shouldSendEmailFetch(cfg, e) ==
    cfg.enableEmailNotifications /\ e.MG_API_KEY /\ e.MG_DOMAIN /\ e.ADMIN_EMAIL

shouldSendEmailFlagOnly(adapter, cfg, e) == cfg.enableEmailNotifications

shouldSendEmail(adapter, cfg, e) ==
    CASE adapter = "mailgun.js"       -> shouldSendEmailMailgun(cfg, e)
      [] adapter = "cloudflare:email" -> shouldSendEmailCloudflare(cfg, e)
      [] adapter = "fetch"            -> shouldSendEmailFetch(cfg, e)

(***************************************************************************)
(* The worker: the submissions table, the clock, the deployment's          *)
(* configuration and the requests being handled.                           *)
(***************************************************************************)
VARIABLES
    db,       \* the submissions table: a set of rows
    clock,    \* the server clock in whole seconds
    config,   \* CONFIG.features of this deployment
    env,      \* which bindings and secrets of Env are set
    adapter,  \* which email.ts is built in
    reqs      \* the requests: each runs one handler

vars == << db, clock, config, env, adapter, reqs >>

Reqs == 1..MaxReqs

Ids == 1..MaxIds

\* an id or status field that the posted form does not carry
NoId == 0

NoForm ==
    [name |-> Undefined, email |-> Undefined, phone |-> Undefined,
     service_type |-> Undefined, message |-> Undefined]

NoSubmission ==
    [id |-> NoId, name |-> Undefined, email |-> Undefined, phone |-> Undefined,
     service_type |-> Undefined, message |-> Undefined]

IdleRequest ==
    [ kind       |-> "none",      \* "submit", "admin" or "update"
      pc         |-> "idle",      \* where the handler is suspended
      form       |-> NoForm,      \* parseFormData(formData)
      header     |-> NoHeader,    \* Cf-Access-Jwt-Assertion
      id         |-> NoId,        \* formData.get('id')
      status     |-> Missing,     \* formData.get('status')
      submission |-> NoSubmission,
      user       |-> NoUser,      \* extractUserFromAccessToken(request)
      response   |-> 0,           \* HTTP status of the response, 0 before it
      errors     |-> << >>,       \* the messages of an error page
      listing    |-> << >>,       \* the rows of the admin page
      shown      |-> Missing,     \* the e-mail in the admin page's user-info
      attempts   |-> 0,           \* provider calls made
      delivery   |-> "none" ]     \* how the provider call ended

\* requests are numbered in the order in which the worker receives them
Arrives(r) ==
    /\ reqs[r].pc = "idle"
    /\ \A q \in Reqs : q < r => reqs[q].pc # "idle"

Respond(req, code) == [req EXCEPT !.pc = "done", !.response = code]

RowIds(rows) == { row.id : row \in rows }

InsertedRowInProgress(submission, now) ==
    [ id           |-> submission.id,
      name         |-> submission.name,
      email        |-> submission.email,
      phone        |-> submission.phone,
      service_type |-> submission.service_type,
      message      |-> submission.message,
      status       |-> "in_progress",
      created_at   |-> now,
      updated_at   |-> now ]

InsertedRowNoUpdatedAt(submission, now) ==
    [ id           |-> submission.id,
      name         |-> submission.name,
      email        |-> submission.email,
      phone        |-> submission.phone,
      service_type |-> submission.service_type,
      message      |-> submission.message,
      status       |-> "new",
      created_at   |-> now,
      updated_at   |-> 0 ]

\* INSERT INTO submissions (...) VALUES (?, ?, ?, ?, ?, ?, 'new', datetime('now'))
\* updated_at takes the column default CURRENT_TIMESTAMP
InsertedRow(submission, now) ==
    [ id           |-> submission.id,
      name         |-> submission.name,
      email        |-> submission.email,
      phone        |-> submission.phone,
      service_type |-> submission.service_type,
      message      |-> submission.message,
      status       |-> "new",
      created_at   |-> now,
      updated_at   |-> now ]

UpdatedRowsKeepStamp(rows, id, status, now) ==
    { IF row.id = id /\ row.status # status THEN [row EXCEPT !.status = status, !.updated_at = now]
      ELSE row
      : row \in rows }

UpdatedRowsTerminal(rows, id, status, now) ==
    { IF row.id = id /\ row.status \notin {"resolved", "cancelled"}
      THEN [row EXCEPT !.status = status, !.updated_at = now] ELSE row
      : row \in rows }

UpdatedRowsNoWhere(rows, id, status, now) ==
    { [row EXCEPT !.status = status, !.updated_at = now] : row \in rows }

\* UPDATE submissions SET status = ?, updated_at = datetime('now') WHERE id = ?
UpdatedRows(rows, id, status, now) ==
    { IF row.id = id THEN [row EXCEPT !.status = status, !.updated_at = now] ELSE row
      : row \in rows }

ListingsAscending(rows) ==
    { l \in [1..Cardinality(rows) -> rows] :
        /\ \A i, j \in 1..Cardinality(rows) : i # j => l[i] # l[j]
        /\ \A i, j \in 1..Cardinality(rows) : i < j => l[i].created_at <= l[j].created_at }

\* SELECT * FROM submissions ORDER BY created_at DESC: the rows in any
\* order that is descending in created_at
Listings(rows) ==
    { l \in [1..Cardinality(rows) -> rows] :
        /\ \A i, j \in 1..Cardinality(rows) : i # j => l[i] # l[j]
        /\ \A i, j \in 1..Cardinality(rows) : i < j => l[i].created_at >= l[j].created_at }

validStatusesShort == { statusOptions[i] : i \in 1..(Len(statusOptions) - 1) }

\* config.admin.statusOptions.map(option => option.value)
validStatuses == { statusOptions[i] : i \in 1..Len(statusOptions) }

(***************************************************************************)
(* handleSubmit                                                            *)
(***************************************************************************)
\* from the request to the first await on the database: parse, validate,
\* answer 400 or build the submission and issue the insert
HandleSubmit(r, forms) ==
    /\ Arrives(r)
    /\ \E formData \in forms, uuid \in Ids :
         LET validation == validateFormSubmission(formData)
             req        == [reqs[r] EXCEPT !.kind = "submit", !.form = formData]
         IN  IF ~validation.isValid
             THEN reqs' = [reqs EXCEPT ![r] =
                             Respond([req EXCEPT !.errors = validation.errors], 400)]
             ELSE reqs' = [reqs EXCEPT ![r] =
                             [req EXCEPT !.pc = "saving",
                                         !.submission =
                                             [id |-> uuid] @@ createFormSubmission(formData)]]
    /\ UNCHANGED << db, clock, config, env, adapter >>

SaveSubmissionPartial(r) ==
    /\ reqs[r].pc = "saving"
    /\ \/ /\ reqs[r].submission.id \notin RowIds(db)
          /\ db' = db \cup { InsertedRow(reqs[r].submission, clock) }
          /\ IF shouldSendEmail(adapter, config, env)
             THEN reqs' = [reqs EXCEPT ![r] = [@ EXCEPT !.pc = "notifying", !.attempts = @ + 1]]
             ELSE reqs' = [reqs EXCEPT ![r] = Respond(@, 200)]
       \/ /\ reqs[r].submission.id \notin RowIds(db)
          /\ db' = db \cup { InsertedRow(reqs[r].submission, clock) }
          /\ reqs' = [reqs EXCEPT ![r] =
                        Respond([@ EXCEPT !.errors = << "Database error occurred" >>], 500)]
       \/ /\ db' = db
          /\ reqs' = [reqs EXCEPT ![r] =
                        Respond([@ EXCEPT !.errors = << "Database error occurred" >>], 500)]
    /\ UNCHANGED << clock, config, env, adapter >>

SaveSubmissionNotifyFirst(r) ==
    /\ reqs[r].pc = "saving"
    /\ \/ /\ reqs[r].submission.id \notin RowIds(db)
          /\ db' = db \cup { InsertedRow(reqs[r].submission, clock) }
          /\ IF shouldSendEmail(adapter, config, env)
             THEN reqs' = [reqs EXCEPT ![r] = [@ EXCEPT !.pc = "notifying", !.attempts = @ + 1]]
             ELSE reqs' = [reqs EXCEPT ![r] = Respond(@, 200)]
       \/ /\ db' = db
          /\ IF shouldSendEmail(adapter, config, env)
             THEN reqs' = [reqs EXCEPT ![r] = [@ EXCEPT !.pc = "notifying", !.attempts = @ + 1]]
             ELSE reqs' = [reqs EXCEPT ![r] =
                             Respond([@ EXCEPT !.errors = << "Database error occurred" >>], 500)]
    /\ UNCHANGED << clock, config, env, adapter >>

SaveSubmissionNoKey(r) ==
    /\ reqs[r].pc = "saving"
    /\ \/ /\ db' = db \cup { InsertedRow(reqs[r].submission, clock) }
          /\ IF shouldSendEmail(adapter, config, env)
             THEN reqs' = [reqs EXCEPT ![r] = [@ EXCEPT !.pc = "notifying", !.attempts = @ + 1]]
             ELSE reqs' = [reqs EXCEPT ![r] = Respond(@, 200)]
       \/ /\ db' = db
          /\ reqs' = [reqs EXCEPT ![r] =
                        Respond([@ EXCEPT !.errors = << "Database error occurred" >>], 500)]
    /\ UNCHANGED << clock, config, env, adapter >>

SaveSubmissionShared(r) ==
    /\ reqs[r].pc = "saving"
    /\ \/ \E q \in Reqs :
            /\ reqs[q].pc = "saving"
            /\ reqs[q].submission.id \notin RowIds(db)
            /\ db' = db \cup { InsertedRow(reqs[q].submission, clock) }
            /\ IF shouldSendEmail(adapter, config, env)
               THEN reqs' = [reqs EXCEPT ![r] = [@ EXCEPT !.pc = "notifying", !.attempts = @ + 1]]
               ELSE reqs' = [reqs EXCEPT ![r] = Respond(@, 200)]
       \/ /\ db' = db
          /\ reqs' = [reqs EXCEPT ![r] =
                        Respond([@ EXCEPT !.errors = << "Database error occurred" >>], 500)]
    /\ UNCHANGED << clock, config, env, adapter >>

\* await saveSubmission(env, submission) and what follows it up to the
\* next await: the insert succeeds and the handler goes on to the
\* notification, or the insert throws and the handler's catch answers 500
SaveSubmission(r) ==
    /\ reqs[r].pc = "saving"
    /\ \/ /\ reqs[r].submission.id \notin RowIds(db)
          /\ db' = db \cup { InsertedRow(reqs[r].submission, clock) }
          /\ IF shouldSendEmail(adapter, config, env)
             THEN reqs' = [reqs EXCEPT ![r] = [@ EXCEPT !.pc = "notifying", !.attempts = @ + 1]]
             ELSE reqs' = [reqs EXCEPT ![r] = Respond(@, 200)]
       \/ /\ db' = db
          /\ reqs' = [reqs EXCEPT ![r] =
                        Respond([@ EXCEPT !.errors = << "Database error occurred" >>], 500)]
    /\ UNCHANGED << clock, config, env, adapter >>

SendAdminNotificationRetry(r) ==
    /\ reqs[r].pc = "notifying"
    /\ \E outcome \in ProviderOutcomes(adapter) :
         LET req == [reqs[r] EXCEPT !.delivery = outcome]
         IN  IF outcome # "ok" /\ reqs[r].attempts < 2
             THEN reqs' = [reqs EXCEPT ![r] = [req EXCEPT !.attempts = @ + 1]]
             ELSE reqs' = [reqs EXCEPT ![r] = Respond(req, 200)]
    /\ UNCHANGED << db, clock, config, env, adapter >>

\* await sendAdminNotification(env, submission): the provider call ends
SendAdminNotification(r) ==
    /\ reqs[r].pc = "notifying"
    /\ \E outcome \in ProviderOutcomes(adapter) :
         LET req == [reqs[r] EXCEPT !.delivery = outcome]
         IN  IF sendAdminNotification(adapter, outcome) = "returned"
             THEN reqs' = [reqs EXCEPT ![r] = Respond(req, 200)]
             ELSE reqs' = [reqs EXCEPT ![r] =
                             Respond([req EXCEPT !.errors = << "Database error occurred" >>], 500)]
    /\ UNCHANGED << db, clock, config, env, adapter >>

(***************************************************************************)
(* handleAdmin                                                             *)
(***************************************************************************)
DeniedStatusSwapped(user) == IF ~user.present THEN 403 ELSE 401

\* if (!user) 401 else 403
DeniedStatus(user) == IF ~user.present THEN 401 ELSE 403

HandleAdminLeaky(r, headers) ==
    /\ Arrives(r)
    /\ \E header \in headers :
         LET user == extractUserFromAccessToken(header, clock)
             req  == [reqs[r] EXCEPT !.kind = "admin", !.header = header, !.user = user]
         IN  IF ~validateAdminAccess(user, config)
             THEN \E l \in Listings(db) :
                    reqs' = [reqs EXCEPT ![r] =
                               Respond([req EXCEPT !.listing = l], DeniedStatus(user))]
             ELSE reqs' = [reqs EXCEPT ![r] = [req EXCEPT !.pc = "reading"]]
    /\ UNCHANGED << db, clock, config, env, adapter >>

HandleAdmin(r, headers) ==
    /\ Arrives(r)
    /\ \E header \in headers :
         LET user == extractUserFromAccessToken(header, clock)
             req  == [reqs[r] EXCEPT !.kind = "admin", !.header = header, !.user = user]
         IN  IF ~validateAdminAccess(user, config)
             THEN reqs' = [reqs EXCEPT ![r] = Respond(req, DeniedStatus(user))]
             ELSE reqs' = [reqs EXCEPT ![r] = [req EXCEPT !.pc = "reading"]]
    /\ UNCHANGED << db, clock, config, env, adapter >>

\* await getAllSubmissions(env), then the admin page
GetAllSubmissions(r) ==
    /\ reqs[r].pc = "reading"
    /\ \/ \E l \in Listings(db) :
            reqs' = [reqs EXCEPT ![r] =
                       Respond([reqs[r] EXCEPT
                                  !.listing = l,
                                  !.shown = IF reqs[r].user.present
                                            THEN reqs[r].user.email ELSE Missing], 200)]
       \/ reqs' = [reqs EXCEPT ![r] = Respond(@, 500)]
    /\ UNCHANGED << db, clock, config, env, adapter >>

(***************************************************************************)
(* handleStatusUpdate                                                      *)
(***************************************************************************)
HandleStatusUpdateUnchecked(r, headers, ids, statuses) ==
    /\ Arrives(r)
    /\ \E header \in headers, id \in ids, status \in statuses :
         LET user == extractUserFromAccessToken(header, clock)
             req  == [reqs[r] EXCEPT !.kind = "update", !.header = header, !.user = user,
                                     !.id = id, !.status = status]
         IN  IF id = NoId \/ status \in {Missing, ""}
             THEN reqs' = [reqs EXCEPT ![r] =
                             Respond([req EXCEPT !.errors = << "Missing ID or status" >>], 400)]
             ELSE reqs' = [reqs EXCEPT ![r] = [req EXCEPT !.pc = "updating"]]
    /\ UNCHANGED << db, clock, config, env, adapter >>

HandleStatusUpdate(r, headers, ids, statuses) ==
    /\ Arrives(r)
    /\ \E header \in headers, id \in ids, status \in statuses :
         LET user == extractUserFromAccessToken(header, clock)
             req  == [reqs[r] EXCEPT !.kind = "update", !.header = header, !.user = user,
                                     !.id = id, !.status = status]
         IN  IF id = NoId \/ status \in {Missing, ""}
             THEN reqs' = [reqs EXCEPT ![r] =
                             Respond([req EXCEPT !.errors = << "Missing ID or status" >>], 400)]
             ELSE IF status \notin validStatuses
             THEN reqs' = [reqs EXCEPT ![r] =
                             Respond([req EXCEPT !.errors = << "Invalid status value" >>], 400)]
             ELSE reqs' = [reqs EXCEPT ![r] = [req EXCEPT !.pc = "updating"]]
    /\ UNCHANGED << db, clock, config, env, adapter >>

UpdateSubmissionStatusConflict(r) ==
    /\ reqs[r].pc = "updating"
    /\ \/ IF \E q \in Reqs \ {r} :
                /\ reqs[q].kind = "update" /\ reqs[q].id = reqs[r].id
                /\ reqs[q].response = 302
          THEN /\ db' = db
               /\ reqs' = [reqs EXCEPT ![r] = Respond(@, 409)]
          ELSE /\ db' = UpdatedRows(db, reqs[r].id, reqs[r].status, clock)
               /\ reqs' = [reqs EXCEPT ![r] = Respond(@, 302)]
       \/ /\ db' = db
          /\ reqs' = [reqs EXCEPT ![r] =
                        Respond([@ EXCEPT !.errors = << "Update failed" >>], 500)]
    /\ UNCHANGED << clock, config, env, adapter >>

\* await updateSubmissionStatus(env, id, status), then the redirect
UpdateSubmissionStatus(r) ==
    /\ reqs[r].pc = "updating"
    /\ \/ /\ db' = UpdatedRows(db, reqs[r].id, reqs[r].status, clock)
          /\ reqs' = [reqs EXCEPT ![r] = Respond(@, 302)]
       \/ /\ db' = db
          /\ reqs' = [reqs EXCEPT ![r] =
                        Respond([@ EXCEPT !.errors = << "Update failed" >>], 500)]
    /\ UNCHANGED << clock, config, env, adapter >>

\* time passes
Tick ==
    /\ clock < MaxClock
    /\ clock' = clock + 1
    /\ UNCHANGED << db, config, env, adapter, reqs >>

(***************************************************************************)
(* Deployments and inputs.                                                 *)
(***************************************************************************)
\* CONFIG.features as shipped
ProductionConfig ==
    [enableEmailNotifications |-> TRUE, enableAdminAuth |-> TRUE,
     enableCloudflareAccess |-> TRUE]

Configs ==
    [enableEmailNotifications : BOOLEAN, enableAdminAuth : BOOLEAN,
     enableCloudflareAccess : BOOLEAN]

\* every secret and binding set, and each one missing in turn
FullEnv == [MG_API_KEY |-> TRUE, MG_DOMAIN |-> TRUE, EMAIL_SENDER |-> TRUE, ADMIN_EMAIL |-> TRUE]

Envs ==
    { FullEnv,
      [FullEnv EXCEPT !.MG_API_KEY = FALSE], [FullEnv EXCEPT !.MG_DOMAIN = FALSE],
      [FullEnv EXCEPT !.EMAIL_SENDER = FALSE], [FullEnv EXCEPT !.ADMIN_EMAIL = FALSE] }

Adapters == {"mailgun.js", "cloudflare:email", "fetch"}

GeneralInquiry == Str("General Inquiry", 1)

GoodEmail == << Run("a", 1), Run("at", 1), Run("b", 1), Run("dot", 1), Run("c", 3) >>

Form(name, email, phone, service_type, message) ==
    [name |-> name, email |-> email, phone |-> phone,
     service_type |-> service_type, message |-> message]

\* the table as the worker finds it: empty, or holding a row that an
\* earlier submission left
SeedRow ==
    InsertedRow([id |-> 1]
                @@ createFormSubmission(
                     Form(Str("z", 1), Undefined, Undefined, GeneralInquiry, Str("m", 1))), 0)

InitialStores == { {}, {SeedRow} }

Names ==
    { Undefined, EmptyStr, Str("sp", 2), Str("a", 1), Str("ctl", 1),
      << Run("sp", 1), Run("a", 2), Run("tab", 1) >>, Str("a", NameMax + 1) }

ServiceTypeInputs ==
    { Undefined, EmptyStr, Str("sp", 1), GeneralInquiry, Str("Partnership Opportunity", 1),
      Concat(GeneralInquiry, Str("sp", 1)), Str("Other", 1) }

Messages ==
    { Undefined, Str("tab", 1), Str("m", 1),
      << Run("m", 1), Run("ctl", 1), Run("m", 1) >>, Str("m", MessageMax + 1) }

Emails ==
    { Undefined, Str("sp", 1), GoodEmail,
      Concat(Str("sp", 1), GoodEmail),
      << Run("a", 1), Run("at", 1), Run("b", 1) >>,
      << Run("at", 1), Run("b", 1), Run("dot", 1), Run("c", 1) >>,
      << Run("a", 1), Run("at", 1) >>,
      << Run("a", 1), Run("at", 1), Run("b", 1), Run("dot", 1) >>,
      << Run("a", 1), Run("sp", 1), Run("a", 1), Run("at", 1), Run("b", 1),
         Run("dot", 1), Run("c", 1) >>,
      Concat(Str("a", EmailMax), GoodEmail) }

Phones == { Undefined, Str("5", 7), Str("5", PhoneMax + 1) }

AllForms ==
    { Form(n, e, p, s, m) : n \in Names, e \in Emails, p \in Phones,
                            s \in ServiceTypeInputs, m \in Messages }

SomeForms ==
    { Form(<< Run("sp", 1), Run("b", 2) >>, GoodEmail, Str("5", 7),
           Str("Partnership Opportunity", 1), << Run("m", 1), Run("ctl", 1), Run("m", 1) >>),
      Form(Str("a", 1), << Run("a", 1), Run("at", 1) >>, Undefined, GeneralInquiry,
           Undefined) }

ListedEmail == "harley@atlasdivisions.com"

UnlistedEmail == "eve@example.com"

ClaimEmails == { Missing, "", ListedEmail, UnlistedEmail }

AllClaims ==
    { Claims(FALSE, 0, e) : e \in ClaimEmails }
    \cup { Claims(TRUE, x, e) : x \in 0..(MaxClock + 1), e \in ClaimEmails }

AllHeaders ==
    { NoHeader, Header(<< EmptySegment >>),
      Header(<< Segment(TRUE, TRUE, Claims(FALSE, 0, ListedEmail)) >>),
      Header(<< Signature, Segment(TRUE, TRUE, Claims(FALSE, 0, ListedEmail)) >>),
      Header(<< Signature, Segment(TRUE, TRUE, Claims(FALSE, 0, ListedEmail)),
                Signature, Signature >>),
      Header(<< Signature, EmptySegment, Signature >>),
      Header(<< Signature, Segment(FALSE, TRUE, Claims(FALSE, 0, ListedEmail)), Signature >>),
      Header(<< Signature, Segment(TRUE, FALSE, Claims(FALSE, 0, ListedEmail)), Signature >>),
      Token(JsonNull), Token(JsonNumber) }
    \cup { Token(c) : c \in AllClaims }

SomeHeaders == { NoHeader, Token(Claims(FALSE, 0, ListedEmail)) }

\* the labels of CONFIG.admin.statusOptions
Labels == { statusOptions[i] : i \in DOMAIN statusOptions }

AllStatuses == Labels \cup { Missing, "", "archived" }

SomeStatuses == Labels \cup { "archived" }

(***************************************************************************)
(* Specifications.                                                         *)
(***************************************************************************)
InitState ==
    /\ db \in InitialStores
    /\ clock = 0
    /\ reqs = [r \in Reqs |-> IdleRequest]

\* the worker as shipped, serving requests concurrently
Init ==
    /\ InitState
    /\ config = ProductionConfig
    /\ env = FullEnv
    /\ adapter = "fetch"

Next ==
    \/ \E r \in Reqs : HandleSubmit(r, SomeForms)
    \/ \E r \in Reqs : SaveSubmission(r)
    \/ \E r \in Reqs : SendAdminNotification(r)
    \/ \E r \in Reqs : HandleAdmin(r, SomeHeaders)
    \/ \E r \in Reqs : GetAllSubmissions(r)
    \/ \E r \in Reqs : HandleStatusUpdate(r, {NoHeader}, Ids, SomeStatuses)
    \/ \E r \in Reqs : UpdateSubmissionStatus(r)
    \/ Tick

Spec == Init /\ [][Next]_vars

\* one POST /submit, any form, on the worker as shipped
NextSubmit ==
    \/ HandleSubmit(1, AllForms)
    \/ SaveSubmission(1)
    \/ SendAdminNotification(1)
    \/ Tick

SpecSubmit == Init /\ [][NextSubmit]_vars

\* one POST /submit under every notification set-up
InitNotify ==
    /\ InitState
    /\ config \in { c \in Configs : c.enableAdminAuth /\ c.enableCloudflareAccess }
    /\ env \in Envs
    /\ adapter \in Adapters

NextNotify ==
    \/ HandleSubmit(1, SomeForms)
    \/ SaveSubmission(1)
    \/ SendAdminNotification(1)
    \/ Tick

SpecNotify == InitNotify /\ [][NextNotify]_vars

\* one admin request, any header, under every authorisation policy
InitAdmin ==
    /\ InitState
    /\ config \in { c \in Configs : c.enableEmailNotifications }
    /\ env = FullEnv
    /\ adapter = "fetch"

NextAdmin ==
    \/ HandleAdmin(1, AllHeaders)
    \/ GetAllSubmissions(1)
    \/ HandleStatusUpdate(1, AllHeaders, Ids \cup {NoId}, AllStatuses)
    \/ UpdateSubmissionStatus(1)
    \/ Tick

SpecAdmin == InitAdmin /\ [][NextAdmin]_vars

(***************************************************************************)
(* Properties.                                                             *)
(***************************************************************************)
Range(f) == { f[i] : i \in DOMAIN f }

Submits == { r \in Reqs : reqs[r].kind = "submit" }

Admins == { r \in Reqs : reqs[r].kind = "admin" }

Updates == { r \in Reqs : reqs[r].kind = "update" }

Answered(r) == reqs[r].pc = "done"

\* the field is absent or consists of white space only
Blank(s) == s = Undefined \/ \A i \in 1..Len(s) : IsWhiteSpace(s[i].c)

Min(S) == CHOOSE x \in S : \A y \in S : x <= y

Max(S) == CHOOSE x \in S : \A y \in S : x >= y

\* local@domain.tld once surrounding white space is dropped: no white space
\* inside, exactly one @ that is not the first character, and a "." after
\* it with at least one character on either side
WellFormedAddress(s) ==
    LET cs   == Chars(s)
        dark == { i \in 1..Len(cs) : ~IsWhiteSpace(cs[i]) }
    IN  /\ dark # {}
        /\ LET lo == Min(dark)
               hi == Max(dark)
           IN  /\ \A i \in lo..hi : ~IsWhiteSpace(cs[i])
               /\ \E a \in (lo + 1)..hi :
                    /\ cs[a] = "at"
                    /\ \A i \in lo..hi : i # a => cs[i] # "at"
                    /\ \E d \in (a + 2)..(hi - 1) : cs[d] = "dot"

\* the messages of the rules that a form violates
ViolatedRules(f) ==
       (IF Blank(f.name) THEN { nameRequired } ELSE {})
  \cup (IF Blank(f.service_type) THEN { serviceTypeRequired } ELSE {})
  \cup (IF Blank(f.message) THEN { messageRequired } ELSE {})
  \cup (IF ~Blank(f.email) /\ ~WellFormedAddress(f.email) THEN { emailInvalid } ELSE {})
  \cup (IF f.service_type \notin {Undefined, EmptyStr} /\ f.service_type \notin serviceTypes
        THEN { "Invalid service type selected" } ELSE {})
  \cup (IF f.name # Undefined /\ StrLen(f.name) > NameMax
        THEN { "Name must be less than 255 characters" } ELSE {})
  \cup (IF f.email # Undefined /\ StrLen(f.email) > EmailMax
        THEN { "Email must be less than 255 characters" } ELSE {})
  \cup (IF f.phone # Undefined /\ StrLen(f.phone) > PhoneMax
        THEN { "Phone number must be less than 50 characters" } ELSE {})
  \cup (IF f.message # Undefined /\ StrLen(f.message) > MessageMax
        THEN { "Message must be less than 10,000 characters" } ELSE {})

RequiredPresent(f) ==
    ~Blank(f.name) /\ ~Blank(f.message) /\ f.service_type \in serviceTypes

\* the designated default of the configured status set
DefaultStatus == statusOptions[1]

\* the rows that the table holds beyond those it started with
Gained == db \ {SeedRow}

GainedOwnRow(r) ==
    /\ Cardinality(Gained) = 1
    /\ \A row \in Gained : row.id = reqs[r].submission.id /\ row.status = DefaultStatus

\* C1 as stated: every POST /submit whose name, service_type (in the
\* whitelist) and message are non-blank is answered 200, and the table has
\* gained exactly one row, whose status is the default label.
C1_AsStated ==
    \A r \in Submits :
        Answered(r) /\ RequiredPresent(reqs[r].form)
            => reqs[r].response = 200 /\ GainedOwnRow(r)

\* C1 amended: a POST /submit that violates no validation rule (the required
\* fields non-blank and whitelisted, the e-mail well-formed when given, no
\* field over its length ceiling) is answered 200 unless its insert fails,
\* which gives 500 and no row; when it is answered 200 the table has gained
\* exactly one row, whose status is the default label.
C1_ValidSubmitStored ==
    \A r \in Submits :
        Answered(r) /\ ViolatedRules(reqs[r].form) = {}
            => /\ reqs[r].response \in {200, 500}
               /\ reqs[r].response = 200 => GainedOwnRow(r)
               /\ reqs[r].response = 500 => Gained = {}

C1_Witness ==
    \E r \in Submits :
        /\ Answered(r) /\ ViolatedRules(reqs[r].form) = {}
        /\ reqs[r].form.email # Undefined
        /\ reqs[r].response = 200 /\ GainedOwnRow(r) /\ SeedRow \in db

\* C2: a POST /submit whose name, service_type or message is missing or
\* blank is answered 400 with the table unchanged, and a request whose
\* validation failed never builds a submission or issues an insert.
C2_BlankRequiredRejected ==
    \A r \in Submits :
        /\ Blank(reqs[r].form.name) \/ Blank(reqs[r].form.service_type)
             \/ Blank(reqs[r].form.message)
               => /\ Answered(r) /\ reqs[r].response = 400
                  /\ Gained = {}
        /\ ViolatedRules(reqs[r].form) # {}
               => /\ reqs[r].pc \notin {"saving", "notifying"}
                  /\ reqs[r].submission = NoSubmission
                  /\ Gained = {}

C2_Witness ==
    \E r \in Submits :
        /\ Answered(r) /\ reqs[r].response = 400
        /\ ~Blank(reqs[r].form.name) /\ Blank(reqs[r].form.message)
        /\ db = {SeedRow}

\* C3: validation is not fail-fast: the error list of a rejected form holds
\* the message of every rule the form violates, and a form is accepted
\* (isValid) exactly when that list is empty.
C3_AllViolationsReported ==
    \A r \in Submits :
        LET rejected == Answered(r) /\ reqs[r].response = 400
        IN  /\ ViolatedRules(reqs[r].form) \subseteq Range(reqs[r].errors)
            /\ rejected <=> ViolatedRules(reqs[r].form) # {}
            /\ rejected => Range(reqs[r].errors) = ViolatedRules(reqs[r].form)

C3_Witness ==
    \E r \in Submits :
        /\ Answered(r) /\ reqs[r].response = 400
        /\ Len(reqs[r].errors) >= 6
        /\ { nameRequired, messageRequired, emailInvalid } \subseteq Range(reqs[r].errors)

\* C4: whatever way the provider call fails (it throws, or answers with a
\* non-success status), under every adapter, the POST /submit is answered
\* 200 and the row it inserted is in the table.
C4_NotificationFailureAbsorbed ==
    \A r \in Submits :
        reqs[r].delivery \in {"throws", "not_ok"}
            => Answered(r) /\ reqs[r].response = 200 /\ GainedOwnRow(r)

C4_Witness ==
    \E r \in Submits :
        /\ adapter = "fetch" /\ reqs[r].delivery = "throws" /\ reqs[r].attempts = 1
        /\ reqs[r].response = 200 /\ GainedOwnRow(r)

\* the three policies of validateAdminAccess
Disabled == ~config.enableAdminAuth

Allowlist == config.enableAdminAuth /\ ~config.enableCloudflareAccess

Delegated == config.enableAdminAuth /\ config.enableCloudflareAccess

\* the policy admits the identity (or its absence)
Permitted(user) ==
    \/ Disabled
    \/ Allowlist /\ user.present /\ user.email \in allowedAdminEmails
    \/ Delegated /\ user.present

\* C5 as stated: under a policy that requires authorisation, a POST
\* /admin/update with no usable identity, or with an identity that the
\* policy does not admit, is rejected with 401 or 403, never reaches the
\* update statement and changes no row.
C5_UpdateGated ==
    \A r \in Updates :
        ~Permitted(reqs[r].user)
            => /\ reqs[r].pc # "updating"
               /\ Answered(r) => reqs[r].response \in {401, 403}
               /\ db \in InitialStores

\* C6: in allowlist mode GET /admin is answered 200, showing the
\* identity's e-mail, only when an identity was extracted and its e-mail is
\* in allowedAdminEmails; an extracted identity that is not listed gets 403
\* and a request without identity gets 401.
C6_AllowlistPolicy ==
    Allowlist =>
        \A r \in Admins :
            /\ reqs[r].pc = "reading" \/ (Answered(r) /\ reqs[r].response \in {200, 500})
                 => reqs[r].user.present /\ reqs[r].user.email \in allowedAdminEmails
            /\ Answered(r) /\ reqs[r].response = 200 => reqs[r].shown = reqs[r].user.email
            /\ reqs[r].user.present /\ reqs[r].user.email \notin allowedAdminEmails
                 => Answered(r) /\ reqs[r].response = 403
            /\ ~reqs[r].user.present => Answered(r) /\ reqs[r].response = 401
            /\ reqs[r].header = NoHeader => ~reqs[r].user.present

C6_Witness ==
    /\ Allowlist
    /\ \E r \in Admins : /\ reqs[r].response = 200
                         /\ reqs[r].shown = ListedEmail
                         /\ Len(reqs[r].listing) = 1

\* C7: in delegated mode every extracted identity is authorised whatever
\* its e-mail, a request without identity gets 401, and 403 is never given.
C7_DelegatedPolicy ==
    Delegated =>
        \A r \in Admins :
            /\ reqs[r].user.present
                 => reqs[r].pc = "reading" \/ (Answered(r) /\ reqs[r].response \in {200, 500})
            /\ ~reqs[r].user.present => Answered(r) /\ reqs[r].response = 401
            /\ reqs[r].response # 403

C7_Witness ==
    /\ Delegated
    /\ \E r \in Admins : /\ reqs[r].user.present
                         /\ reqs[r].user.email = UnlistedEmail
                         /\ reqs[r].response = 200

\* C8: with admin auth off, GET /admin is never answered 401 or 403,
\* whatever the header and whatever enableCloudflareAccess.
C8_DisabledPolicy ==
    Disabled =>
        \A r \in Admins :
            /\ reqs[r].response \notin {401, 403}
            /\ reqs[r].pc = "reading" \/ (Answered(r) /\ reqs[r].response \in {200, 500})

C8_Witness ==
    /\ Disabled /\ config.enableCloudflareAccess
    /\ \E r \in Admins : /\ ~reqs[r].user.present
                         /\ reqs[r].header # NoHeader
                         /\ reqs[r].response = 200

\* C9: under every policy a GET /admin is denied exactly when the policy
\* does not admit it, with 401 exactly when no identity was extracted and
\* 403 exactly when one was extracted.
C9_DenialCodes ==
    \A r \in Admins :
        /\ Answered(r) /\ reqs[r].response = 401
             <=> ~Permitted(reqs[r].user) /\ ~reqs[r].user.present
        /\ Answered(r) /\ reqs[r].response = 403
             <=> ~Permitted(reqs[r].user) /\ reqs[r].user.present

C9_Witness ==
    \E r \in Admins : reqs[r].response = 403 /\ reqs[r].user.email = UnlistedEmail

\* the claims of a well-formed three-part token
IsToken(header) ==
    /\ header.present /\ Len(header.parts) = 3
    /\ ~header.parts[2].empty /\ header.parts[2].b64ok /\ header.parts[2].jsonok
    /\ header.parts[2].value.type = "object"

\* C10 as stated: a token whose exp is at or before the current time in
\* whole seconds, exp = now included, yields no identity.  (A claim with
\* exp = 0 counts as carrying no exp.)
C10_ExpiredAtOrBeforeNow ==
    [][ \A r \in Reqs :
          /\ reqs[r].pc = "idle" /\ reqs'[r].pc # "idle"
          /\ IsToken(reqs'[r].header)
          /\ reqs'[r].header.parts[2].value.hasExp
          /\ reqs'[r].header.parts[2].value.exp # 0
          /\ reqs'[r].header.parts[2].value.exp <= clock
          => ~reqs'[r].user.present ]_vars

\* the stored rows with this id (at most one: id is the primary key)
RowsOf(rows, id) == { row \in rows : row.id = id }

\* the posted form lacks id or status, or names a status that is not a
\* configured label
Refused(r) == reqs[r].id = NoId \/ reqs[r].status \notin Labels

\* C11 as stated: a POST /admin/update that lacks id or status, or whose
\* status is not a configured label, is answered 400 with the table
\* unchanged; one on an existing id with a configured label is answered 302
\* and the row's status is that label.
C11_AsStated ==
    \A r \in Updates :
        Answered(r)
            => /\ Refused(r) => reqs[r].response = 400 /\ db \in InitialStores
               /\ ~Refused(r) /\ reqs[r].id \in RowIds(db)
                    => /\ reqs[r].response = 302
                       /\ \A row \in RowsOf(db, reqs[r].id) : row.status = reqs[r].status

\* C11 amended: a POST /admin/update that lacks id or status, or whose
\* status is not a configured label, is answered 400 at once, no update
\* statement being issued and the table unchanged; one on an existing id
\* with a configured label is answered 302 with the row's status that label,
\* unless the update statement fails, which gives 500 and the row unchanged.
C11_StatusValidated ==
    \A r \in Updates :
        /\ Refused(r) => Answered(r) /\ reqs[r].response = 400 /\ db \in InitialStores
        /\ ~Refused(r) /\ reqs[r].id \in RowIds(db) /\ Answered(r)
             => \/ /\ reqs[r].response = 302
                   /\ \A row \in RowsOf(db, reqs[r].id) : row.status = reqs[r].status
                \/ reqs[r].response = 500 /\ db \in InitialStores

C11_Witness ==
    \E r \in Updates :
        /\ reqs[r].status = "cancelled" /\ reqs[r].response = 302
        /\ \E row \in db : row.id = reqs[r].id /\ row.status = "cancelled"

\* C12 as stated: a POST /admin/update (with a configured label) whose id
\* matches no stored submission is answered 500, never with the redirect
\* that reports success, and the table is unchanged.
C12_UnknownIdFails ==
    \A r \in Updates :
        Answered(r) /\ ~Refused(r) /\ reqs[r].id \notin RowIds(db)
            => reqs[r].response = 500 /\ db \in InitialStores

\* a list is newest first
NewestFirst(l) == \A i, j \in 1..Len(l) : i < j => l[i].created_at >= l[j].created_at

\* C13: the list that getAllSubmissions hands to the admin page holds
\* exactly the rows stored at that moment, each once, and every entry's
\* created_at is greater than or equal to that of each later entry.
C13_ListingExact ==
    [][ \A r \in Reqs :
          reqs[r].pc = "reading" /\ reqs'[r].response = 200
            => /\ Range(reqs'[r].listing) = db
               /\ Len(reqs'[r].listing) = Cardinality(db)
               /\ NewestFirst(reqs'[r].listing) ]_vars

C13_Witness ==
    \E r \in Admins :
        /\ reqs[r].response = 200 /\ Len(reqs[r].listing) = 2
        /\ reqs[r].listing[1].created_at > reqs[r].listing[2].created_at
        /\ reqs[r].listing[2] = SeedRow

\* C14: when the insert of a validated submission fails, the request is
\* answered 500, the table is left exactly as it was and no provider call is
\* made; a request whose row was inserted is never answered 500 by that step.
C14_FailedInsertLeavesNothing ==
    [][ \A r \in Reqs :
          reqs[r].pc = "saving" /\ reqs'[r].pc # "saving"
            => IF \E row \in db' \ db : row.id = reqs[r].submission.id
               THEN reqs'[r].response # 500
               ELSE /\ db' = db
                    /\ reqs'[r].pc = "done" /\ reqs'[r].response = 500
                    /\ reqs'[r].attempts = 0 /\ reqs'[r].delivery = "none" ]_vars

C14_Witness ==
    \E r \in Submits :
        /\ reqs[r].response = 500 /\ reqs[r].attempts = 0
        /\ reqs[r].submission.id \notin RowIds(db) /\ Gained = {}

\* C15: an update that sets a row's status to the status it already has
\* leaves the status as it is, never moves updated_at backwards and sets it
\* to the current time; this holds for each such update, so for two in a row.
C15_SameStatusUpdate ==
    [][ \A r \in Reqs :
          reqs[r].pc = "updating" /\ reqs'[r].response = 302
            => \A row \in RowsOf(db, reqs[r].id) :
                 row.status = reqs[r].status
                   => \E after \in RowsOf(db', row.id) :
                        /\ RowsOf(db', row.id) = { after }
                        /\ after.status = row.status
                        /\ after.updated_at >= row.updated_at
                        /\ after.updated_at = clock
                        /\ after.created_at = row.created_at ]_vars

C15_Witness ==
    \E r1, r2 \in Updates :
        /\ r1 # r2
        /\ reqs[r1].response = 302 /\ reqs[r2].response = 302
        /\ reqs[r1].id = SeedRow.id /\ reqs[r2].id = SeedRow.id
        /\ reqs[r1].status = SeedRow.status /\ reqs[r2].status = SeedRow.status
        /\ \E row \in db :
             /\ row.id = SeedRow.id /\ row.status = SeedRow.status
             /\ row.updated_at > SeedRow.updated_at

\* what the built-in adapter needs is not all there: the feature flag is
\* off, the destination address is missing, or a credential of the adapter's
\* provider is missing
ConfigurationAbsent ==
    \/ ~config.enableEmailNotifications
    \/ ~env.ADMIN_EMAIL
    \/ adapter \in {"mailgun.js", "fetch"} /\ (~env.MG_API_KEY \/ ~env.MG_DOMAIN)
    \/ adapter = "cloudflare:email" /\ ~env.EMAIL_SENDER

\* C16 as stated: when the notification configuration is absent, a valid
\* POST /submit makes no provider call, inserts its row and is answered 200.
C16_AsStated ==
    \A r \in Submits :
        ConfigurationAbsent /\ ViolatedRules(reqs[r].form) = {}
            => /\ reqs[r].attempts = 0 /\ reqs[r].pc # "notifying"
               /\ Answered(r) => reqs[r].response = 200 /\ GainedOwnRow(r)

\* C16 amended: when the notification configuration is absent, a valid
\* POST /submit makes no provider call; it inserts its row and is answered
\* 200, unless the insert itself fails, which gives 500 and no row.  The
\* skipped notification is never the cause of an error response.
C16_SkippedWithoutError ==
    \A r \in Submits :
        ConfigurationAbsent /\ ViolatedRules(reqs[r].form) = {}
            => /\ reqs[r].attempts = 0 /\ reqs[r].pc # "notifying"
               /\ reqs[r].delivery = "none"
               /\ Answered(r)
                    => \/ reqs[r].response = 200 /\ GainedOwnRow(r)
                       \/ reqs[r].response = 500 /\ Gained = {}

C16_Witness ==
    \E r \in Submits :
        /\ config.enableEmailNotifications /\ ~env.ADMIN_EMAIL
        /\ reqs[r].attempts = 0 /\ reqs[r].response = 200 /\ GainedOwnRow(r)

\* C17 as stated: the response of a successful POST /submit does not wait
\* for the notification: whenever a request's provider call is in flight,
\* its response has already been produced.
C17_ResponseNotDelayed ==
    \A r \in Submits : reqs[r].pc = "notifying" => reqs[r].response = 200

\* the table holds the row of this request's submission
Stored(r) ==
    \E row \in db :
        /\ row.id = reqs[r].submission.id
        /\ row.name = reqs[r].submission.name
        /\ row.email = reqs[r].submission.email
        /\ row.phone = reqs[r].submission.phone
        /\ row.service_type = reqs[r].submission.service_type
        /\ row.message = reqs[r].submission.message

\* C18: within a POST /submit the insert is issued only for a form that
\* passed validation and before any provider call, and a provider call is
\* made only for a submission whose row is in the table.
C18_NotifyAfterPersist ==
    \A r \in Submits :
        /\ reqs[r].pc = "saving"
             => /\ ViolatedRules(reqs[r].form) = {}
                /\ reqs[r].attempts = 0 /\ reqs[r].delivery = "none"
        /\ reqs[r].attempts > 0 \/ reqs[r].pc = "notifying" \/ reqs[r].delivery # "none"
             => ViolatedRules(reqs[r].form) = {} /\ Stored(r)

C18_Witness ==
    \E r \in Submits :
        reqs[r].pc = "notifying" /\ reqs[r].attempts = 1 /\ Stored(r) /\ SeedRow \in db

\* C19: in every reachable state, whatever submits and status updates have
\* run and however they interleaved, the status of every stored row is one
\* of the configured labels.
C19_StatusAlwaysLabel == \A row \in db : row.status \in Labels

C19_Witness ==
    /\ \E r \in Updates : reqs[r].response = 302 /\ reqs[r].id \in RowIds(db)
    /\ \E r \in Submits : reqs[r].response = 200 /\ Stored(r)
    /\ \E row \in db : row.status = "resolved"
    /\ \E row \in db : row.status = DefaultStatus

\* C20: an update request is refused (400) only for a missing field or a
\* target that is not a configured label, whatever the status of the row it
\* names; and an update statement that runs on a stored row sets the target
\* label whatever status the row had: no status is terminal.
C20_FlatWorkflow ==
    [][ \A r \in Reqs :
          /\ reqs[r].pc = "idle" /\ reqs'[r].kind = "update"
               => (reqs'[r].response = 400
                     <=> reqs'[r].id = NoId \/ reqs'[r].status \notin Labels)
          /\ reqs[r].pc = "updating" /\ reqs'[r].response = 302
               => \A row \in RowsOf(db, reqs[r].id) :
                    \E after \in RowsOf(db', row.id) : after.status = reqs[r].status ]_vars

C20_Witness ==
    \E r1, r2 \in Updates :
        /\ r1 # r2
        /\ reqs[r1].response = 302 /\ reqs[r2].response = 302
        /\ reqs[r1].id = reqs[r2].id
        /\ reqs[r1].status = "cancelled" /\ reqs[r2].status = "in_progress"
        /\ \E row \in db : row.id = reqs[r1].id /\ row.status = "in_progress"

\* the row that the table held from the start (no submission carries its name)
IsSeed(row) == row.id = SeedRow.id /\ row.name = SeedRow.name

\* two different update requests with configured labels that name the row
\* the table held from the start
RaceOnSeed(r1, r2) ==
    /\ r1 # r2
    /\ reqs[r1].kind = "update" /\ reqs[r2].kind = "update"
    /\ reqs[r1].id = SeedRow.id /\ reqs[r2].id = SeedRow.id
    /\ reqs[r1].status \in Labels /\ reqs[r2].status \in Labels
    /\ \E row \in db : IsSeed(row)

\* the labels of the update statements applied so far to an id
Applied(id) ==
    { reqs[r].status : r \in { q \in Updates : reqs[q].id = id /\ reqs[q].response = 302 } }

C22_CreatedBeforeUpdated == \A row \in db : row.created_at <= row.updated_at

C22_Witness ==
    /\ \E row \in db :
         ~IsSeed(row) /\ row.created_at = MaxClock /\ row.updated_at = row.created_at
    /\ \E row \in db :
         IsSeed(row) /\ row.status # SeedRow.status /\ row.updated_at > row.created_at

\* C23: the stored rows always have pairwise distinct ids, and an insert
\* whose generated id is the id of a stored row fails: the request is
\* answered 500 and the table, that row included, is left as it was.
C23_IdsUnique ==
    [][ /\ \A a, b \in db' : a.id = b.id => a = b
        /\ \A r \in Reqs :
             /\ reqs[r].pc = "saving" /\ reqs'[r].pc # "saving"
             /\ reqs[r].submission.id \in RowIds(db)
             => db' = db /\ reqs'[r].response = 500 ]_vars

C23_Witness ==
    \E r \in Submits :
        /\ reqs[r].response = 500 /\ Cardinality(db) = 1
        /\ \E row \in db : IsSeed(row) /\ row.id = reqs[r].submission.id

\* C24: an update statement that runs changes nothing but the status and
\* updated_at of the row with the given id: the other columns of that row,
\* every other row and the number of rows are as before.
C24_UpdateFrame ==
    [][ \A r \in Reqs :
          reqs[r].pc = "updating" /\ reqs'[r].response = 302
            => /\ Cardinality(db') = Cardinality(db)
               /\ \A row \in db :
                    IF row.id = reqs[r].id
                    THEN \E after \in db' :
                           after = [row EXCEPT !.status = after.status,
                                               !.updated_at = after.updated_at]
                    ELSE row \in db' ]_vars

C24_Witness ==
    /\ Cardinality(db) = 2
    /\ \E r \in Updates :
         /\ reqs[r].response = 302 /\ reqs[r].status = "in_progress"
         /\ \E row \in db : row.id = reqs[r].id /\ row.status = "in_progress"
    /\ \E row \in db : row.status = DefaultStatus /\ row.updated_at = row.created_at

\* C25 as stated: every submission built from a form that validation
\* accepted, and every stored row, has a non-empty name, a non-empty
\* message and a whitelisted service_type.
C25_StoredNonEmpty ==
    /\ \A r \in Submits :
         reqs[r].pc \in {"saving", "notifying"} \/ reqs[r].response \in {200, 500}
           => /\ StrLen(reqs[r].submission.name) > 0
              /\ StrLen(reqs[r].submission.message) > 0
              /\ reqs[r].submission.service_type \in serviceTypes
    /\ \A row \in db :
         StrLen(row.name) > 0 /\ StrLen(row.message) > 0 /\ row.service_type \in serviceTypes

\* C26: a GET /admin that the policy does not admit is answered 401 or 403
\* at once, without reading the table and with no submission in the
\* response; the table is read, and rows are shown, only for a request that
\* the policy admits.
C26_DeniedBeforeRead ==
    \A r \in Admins :
        /\ ~Permitted(reqs[r].user) => Answered(r) /\ reqs[r].response \in {401, 403}
        /\ reqs[r].response \in {401, 403}
             => reqs[r].listing = << >> /\ reqs[r].shown = Missing
        /\ reqs[r].pc = "reading" \/ reqs[r].listing # << >> \/ reqs[r].response = 200
             => Permitted(reqs[r].user)

C26_Witness ==
    \E r \in Admins :
        /\ db = {SeedRow} /\ Allowlist
        /\ reqs[r].user.present /\ reqs[r].response = 403 /\ reqs[r].listing = << >>

\* the header is absent, is not three dot-separated parts, has a middle
\* part that does not decode to a JSON object, or decodes to a claim whose
\* email is absent or empty
Malformed(header) ==
    \/ ~header.present
    \/ Len(header.parts) # 3
    \/ /\ Len(header.parts) = 3
       /\ LET payload == header.parts[2]
          IN  \/ payload.empty \/ ~payload.b64ok \/ ~payload.jsonok
              \/ payload.value.type # "object"
              \/ payload.value.email \in {Missing, ""}

\* C27: for every malformed header extractUserFromAccessToken returns no
\* identity (it never raises: the handler goes on to the policy), and under
\* a policy that requires authorisation the GET /admin is answered 401.
C27_MalformedIsUnauthenticated ==
    \A r \in Reqs :
        reqs[r].kind \in {"admin", "update"} /\ Malformed(reqs[r].header)
            => /\ ~reqs[r].user.present
               /\ reqs[r].kind = "admin" /\ ~Disabled
                    => Answered(r) /\ reqs[r].response = 401

C27_Witness ==
    \E r \in Admins :
        /\ reqs[r].header = Token(Claims(FALSE, 0, Missing))
        /\ Delegated /\ reqs[r].response = 401

\* C28: a POST /submit makes at most one provider call, none when it is
\* answered 400 or 500; a call that failed is not repeated; and the stored
\* row is the row of the insert whatever became of the call.
C28_AtMostOneAttempt ==
    \A r \in Submits :
        /\ reqs[r].attempts <= 1
        /\ reqs[r].response \in {400, 500}
             => reqs[r].attempts = 0 /\ reqs[r].delivery = "none"
        /\ reqs[r].delivery # "none" => Answered(r) /\ reqs[r].attempts = 1
        /\ \A row \in Gained :
             row.id = reqs[r].submission.id
               => row = InsertedRow(reqs[r].submission, row.created_at)

C28_Witness ==
    \E r \in Submits :
        /\ reqs[r].delivery = "not_ok" /\ reqs[r].attempts = 1 /\ Answered(r)
        /\ \E row \in Gained : row = InsertedRow(reqs[r].submission, row.created_at)

\* C29: a well-formed three-part token whose claim has an email and no exp,
\* or exp = 0, yields the identity of that email at whatever time it is
\* presented.
C29_NoExpNeverExpires ==
    [][ \A r \in Reqs :
          /\ reqs[r].pc = "idle" /\ reqs'[r].pc # "idle"
          /\ IsToken(reqs'[r].header)
          /\ ~reqs'[r].header.parts[2].value.hasExp \/ reqs'[r].header.parts[2].value.exp = 0
          /\ reqs'[r].header.parts[2].value.email \notin {Missing, ""}
          => /\ reqs'[r].user.present
             /\ reqs'[r].user.email = reqs'[r].header.parts[2].value.email ]_vars

C29_Witness ==
    \E r \in Admins :
        /\ clock = MaxClock
        /\ reqs[r].header = Token(Claims(TRUE, 0, UnlistedEmail))
        /\ reqs[r].user.present /\ reqs[r].user.email = UnlistedEmail
        /\ Delegated /\ reqs[r].pc = "reading"

\* the rows that submissions added
NewRows == { row \in db : ~IsSeed(row) }

\* the POST /submit requests whose form violates no rule
ValidSubmits == { r \in Submits : ViolatedRules(reqs[r].form) = {} }

\* the row carries the request's id and field values, and the default
\* status unless a status update named it
OwnRow(r, row) ==
    /\ row.id = reqs[r].submission.id
    /\ row.name = reqs[r].submission.name
    /\ row.email = reqs[r].submission.email
    /\ row.phone = reqs[r].submission.phone
    /\ row.service_type = reqs[r].submission.service_type
    /\ row.message = reqs[r].submission.message
    /\ (\A u \in Updates : reqs[u].id # row.id) => row.status = DefaultStatus

\* C30 as stated: once k concurrent valid POST /submit requests (and the
\* status updates running beside them) have all been answered, every one of
\* them was answered 200 and the table holds exactly k new rows, one for
\* each with its field values and the default status.
C30_AsStated ==
    (\A r \in Reqs : reqs[r].pc \in {"idle", "done"})
        => /\ Cardinality(NewRows) = Cardinality(ValidSubmits)
           /\ \A r \in ValidSubmits :
                reqs[r].response = 200 /\ \E row \in NewRows : OwnRow(r, row)

\* C30 amended: at every moment the new rows of the table are exactly the
\* rows of the valid POST /submit requests whose insert has succeeded, one
\* each, with that request's id and field values and the default status;
\* a valid request is answered 200, or 500 when its own insert failed (store
\* unreachable, or its generated id already stored), and then leaves no row.
C30_IndependentSubmits ==
    LET inserted == { r \in Submits : reqs[r].pc = "notifying" \/ reqs[r].response = 200 }
    IN  /\ Cardinality(NewRows) = Cardinality(inserted)
        /\ \A r \in inserted : \E row \in NewRows : OwnRow(r, row)
        /\ \A r1, r2 \in inserted :
             r1 # r2 => reqs[r1].submission.id # reqs[r2].submission.id
        /\ \A r \in Submits :
             Answered(r) => IF ViolatedRules(reqs[r].form) = {}
                            THEN reqs[r].response \in {200, 500}
                            ELSE reqs[r].response = 400

C30_Witness ==
    \E r1, r2 \in Submits :
        /\ r1 # r2
        /\ reqs[r1].response = 200 /\ reqs[r2].response = 200
        /\ Cardinality(NewRows) = 2
        /\ \E row \in NewRows : OwnRow(r1, row)
        /\ \E row \in NewRows : OwnRow(r2, row)
====
